---- MODULE Spec2Model ----
(***************************************************************************)
(* Model of connection_pool (ConnectionPool.cpp, ConnectionPool.h,         *)
(* Connection.cpp): the idle queue, the connection counter, the mutex and  *)
(* the condition variable, the producer and scanner threads, the callers   *)
(* of getconnection() and the handles (PooledConnection) they receive.     *)
(*                                                                         *)
(* The callers of getconnection() run the same code and are                *)
(* interchangeable, so their positions are kept as counts: how many are    *)
(* blocked in wait_for, how many were woken by a notification, how many by *)
(* the timeout; at most one of them is past the loop, holding the mutex.   *)
(***************************************************************************)
EXTENDS Integers, Sequences, FiniteSets, TLC

\* ---------------------------------------------------------------- bounds
\* _maxSize of the configuration.
MaxSize == 2
\* Number of application threads that call getconnection().
NumAcquirers == 3
\* Number of connection objects ever constructed (constructor and producer).
MaxSessions == 3

Sessions == 1..MaxSessions

VARIABLES
    _initSize,       \* int, read from the configuration file
    _connectionQue,  \* std::queue<unique_ptr<connection>>: sequence of sessions
    _connectionCnt,  \* std::atomic_int
    _shutdown,       \* std::atomic<bool>
    _queueMutex,     \* owner of the mutex: "free", "producer" or "consumer"
    pool,            \* "alive", "closed" (shutdown() returned), "destroyed",
                     \* "crashed"
    waiting,         \* callers blocked in cv.wait_for
    notified,        \* callers whose wait_for returned no_timeout
    timedout,        \* callers whose wait_for returned timeout
    conn,            \* the local `conn` of the caller past the loop (0: none)
    pcP,             \* produceConnectionTask: "lock", "waiting", "connecting";
                     \* "none": the threads were never started
    held,            \* sessions owned by a live PooledConnection
    destroyed,       \* sessions whose connection object was deleted
    created,         \* number of connection objects constructed so far
    valid,           \* sessions on which isValid() answers true
    aged,            \* idle sessions with getAliveTime() >= _maxIdleTime*1000
    uaf,             \* a thread touched the pool after its destruction
    event            \* the last operation ("env": timers, wake-ups, the server)

vars == <<_initSize, _connectionQue, _connectionCnt, _shutdown, _queueMutex,
          pool, waiting, notified, timedout, conn, pcP, held, destroyed, created,
          valid, aged, uaf, event>>

\* ---------------------------------------------------------------- helpers
Range(q) == {q[i] : i \in 1..Len(q)}

\* Sessions queued in the pool.
Idle == Range(_connectionQue)

\* The session popped by the caller that is still inside getconnection().
InFlight == {conn} \ {0}

\* Callers inside getconnection().
InCall == waiting + notified + timedout + Cardinality(InFlight)

\* Mutant: a session is put where the next pop will take it.
PushFront(q, s) == <<s>> \o q

\* std::queue::push: the session goes to the back.
PushBack(q, s) == Append(q, s)

\* Sessions constructed, not deleted, and owned by nobody (raw pointer lost).
Leaked == (1..created) \ (Idle \cup InFlight \cup held \cup destroyed)

\* poolWeakPtr.lock() in the deleter and shared_from_this() in
\* getconnection() succeed while some shared_ptr still owns the pool, that is
\* until ~connection_pool() has started.
\* Mutant: the pool is taken to be alive until its members are destroyed.
PoolAliveStale == pool \in {"alive", "closed"}

PoolAlive == pool = "alive"

\* Mutant: the callers blocked in wait_for miss the notification.
NotifyCallersLost == UNCHANGED <<waiting, notified>>

\* cv.notify_all() as seen by the callers of getconnection(): every caller
\* blocked in wait_for returns from it with no_timeout.
NotifyCallers ==
    /\ notified' = notified + waiting
    /\ waiting' = 0

\* cv.notify_all() as seen by the producer blocked in cv.wait.
NotifyProducer == pcP' = IF pcP = "waiting" THEN "lock" ELSE pcP

\* Mutant: the notification is lost.
NotifyNobody == UNCHANGED <<waiting, notified, pcP>>

\* cv.notify_all()
NotifyAll == NotifyCallers /\ NotifyProducer

\* ---------------------------------------------------------- construction
\* The results of loadConfigFile() that leave a pool object behind: TRUE
\* (the file was read, by the ConfigManager or by the key=value parser of the
\* catch block) and FALSE (loadConfig() returned false, or the file could not
\* be opened by the parser).  An exception that is not a std::exception
\* leaves no pool object and no state.
ConfigOutcomes == BOOLEAN

\* The values of initSize in the configuration file: the pool is configured
\* to start with at least one session and with no more than _maxSize.
InitSizes == 1..MaxSize

\* The producer and the scanner threads were started by the constructor.
Started == pcP # "none"

\* connection_pool::connection_pool().  Configuration loaded: _initSize
\* sessions are constructed, connect() is called on each and its result is
\* ignored, each is pushed and counted, and the two threads are started and
\* detached.  Configuration not loaded: the constructor logs and returns, and
\* getconnect_pool() hands out the pool object with an empty queue, a counter
\* of 0 and no threads.  _shutdown is absent from the member initialiser
\* list, so the std::atomic<bool> holds an indeterminate value.
Init ==
    /\ _initSize \in InitSizes
    /\ \E loaded \in ConfigOutcomes :
         LET n == IF loaded THEN _initSize ELSE 0 IN
         /\ _connectionQue = [i \in 1..n |-> i]
         /\ _connectionCnt = n
         /\ created = n
         /\ valid \in SUBSET (1..n)
         /\ pcP = IF loaded THEN "lock" ELSE "none"
    /\ _shutdown \in BOOLEAN
    /\ _queueMutex = "free"
    /\ pool = "alive"
    /\ waiting = 0
    /\ notified = 0
    /\ timedout = 0
    /\ conn = 0
    /\ held = {}
    /\ destroyed = {}
    /\ aged = {}
    /\ uaf = FALSE
    /\ event = "init"

\* ------------------------------------------------------------- producer
\* Mutant: off by one in the capacity test.
ProducerMayCreateOffByOne == _connectionCnt <= MaxSize

\* if (_connectionCnt < _maxSize)
ProducerMayCreate == _connectionCnt < MaxSize

\* Mutant: the producer does not test the queue before it creates.
ProducerMustWaitNever == FALSE

\* while (!_connectionQue.empty()) cv.wait(lock);
ProducerMustWait == _connectionQue # <<>>

\* produceConnectionTask, from taking the mutex to the decision: wait on a
\* non-empty queue, start connecting below _maxSize, else notify_all, unlock
\* and loop.
ProducerEnter ==
    /\ UNCHANGED _initSize
    /\ pool \in {"alive", "closed"}
    /\ pcP = "lock"
    /\ _queueMutex = "free"
    /\ IF ProducerMustWait
       THEN /\ pcP' = "waiting"
            /\ event' = "producer_wait"
            /\ UNCHANGED <<_queueMutex, waiting, notified>>
       ELSE IF ProducerMayCreate
       THEN /\ created < MaxSessions
            /\ pcP' = "connecting"
            /\ _queueMutex' = "producer"
            /\ event' = "producer_open"
            /\ UNCHANGED <<waiting, notified>>
       ELSE /\ NotifyCallers
            /\ event' = "producer_spin"
            /\ UNCHANGED <<_queueMutex, pcP>>
    /\ UNCHANGED <<_connectionQue, _connectionCnt, _shutdown, pool, timedout,
                   conn, held, destroyed, created, valid, aged, uaf>>

\* The rest of the iteration: connect() (result ignored), refreshsAliveTime,
\* push, count, notify_all, unlock at the end of the scope.
ProducerConnect ==
    /\ UNCHANGED _initSize
    /\ pool \in {"alive", "closed"}
    /\ pcP = "connecting"
    /\ \E ok \in BOOLEAN :
         LET s == created + 1 IN
         /\ created' = s
         /\ valid' = IF ok THEN valid \cup {s} ELSE valid
         /\ _connectionQue' = PushBack(_connectionQue, s)
         /\ _connectionCnt' = _connectionCnt + 1
    /\ NotifyCallers
    /\ pcP' = "lock"
    /\ _queueMutex' = "free"
    /\ event' = "produce"
    /\ UNCHANGED <<_shutdown, pool, timedout, conn, held, destroyed, aged, uaf>>

\* A spurious return of cv.wait(lock).
ProducerSpurious ==
    /\ UNCHANGED _initSize
    /\ pool \in {"alive", "closed"}
    /\ pcP = "waiting"
    /\ pcP' = "lock"
    /\ event' = "spurious"
    /\ UNCHANGED <<_connectionQue, _connectionCnt, _shutdown, _queueMutex, pool,
                   waiting, notified, timedout, conn, held, destroyed, created,
                   valid, aged, uaf>>

\* ------------------------------------------------------- getconnection()
\* Mutant: the caller waits on the condition variable before it looks at the
\* queue.
AcquireDecisionWaitsFirst(timedOut) ==
    IF timedOut
    THEN IF _connectionQue = <<>> THEN "throw" ELSE "pop"
    ELSE "wait"

\* while (_connectionQue.empty()) with the result of the last wait_for:
\* "throw" (std::runtime_error), "wait" or "pop".
AcquireDecision(timedOut) ==
    IF _connectionQue = <<>>
    THEN IF timedOut THEN "throw" ELSE "wait"
    ELSE "pop"

\* Mutant: the front is read and never popped.
PopFrontForgotten(q) == q

\* _connectionQue.pop()
PopFront(q) == Tail(q)

\* Mutant: the failing call uncounts a session it never had.
AcqThrowUncounts ==
    /\ event' = "timeout"
    /\ _connectionCnt' = _connectionCnt - 1
    /\ UNCHANGED <<_connectionQue, conn, _queueMutex, aged, waiting>>

\* The timeout branch: WARN_LOG and throw std::runtime_error; the
\* unique_lock is released by unwinding.
AcqThrow ==
    /\ event' = "timeout"
    /\ UNCHANGED <<_connectionCnt, _connectionQue, conn, _queueMutex, aged,
                   waiting>>

\* The mutex is taken (on entry, or on return from wait_for) and the loop
\* condition is evaluated: throw, wait (again), or pop the front of the
\* queue into the local `conn`.  The caller comes from `from`: "out",
\* "notified" or "timedout".
AcqEnter(from) ==
    /\ UNCHANGED _initSize
    /\ pool \in {"alive", "closed"}
    /\ _queueMutex = "free"
    /\ LET d == AcquireDecision(from = "timedout")
           n == IF from = "notified" THEN notified - 1 ELSE notified
           t == IF from = "timedout" THEN timedout - 1 ELSE timedout
       IN  /\ notified' = n
           /\ timedout' = t
           /\ IF d = "throw"
              THEN AcqThrow
              ELSE IF d = "wait"
              THEN /\ waiting' = waiting + 1
                   /\ event' = IF from = "out" THEN "call_wait" ELSE "rewait"
                   /\ UNCHANGED <<_connectionCnt, _connectionQue, conn,
                                  _queueMutex, aged>>
              ELSE /\ conn' = Head(_connectionQue)
                   /\ _connectionQue' = PopFront(_connectionQue)
                   /\ aged' = aged \ {Head(_connectionQue)}
                   /\ _queueMutex' = "consumer"
                   /\ event' = "pop"
                   /\ UNCHANGED <<_connectionCnt, waiting>>
    /\ UNCHANGED <<_shutdown, pool, pcP, held, destroyed, created, valid, uaf>>

\* A thread calls getconnection() and gets the mutex.
AcqCall ==
    /\ InCall < NumAcquirers
    /\ AcqEnter("out")

\* wait_for returned no_timeout (notified or spuriously) and the mutex is
\* taken again.
AcqWakeNotified ==
    /\ notified > 0
    /\ AcqEnter("notified")

\* wait_for returned timeout and the mutex is taken again.
AcqWakeTimedOut ==
    /\ timedout > 0
    /\ AcqEnter("timedout")

\* The timeout of a wait_for expires.
AcqTimeout ==
    /\ UNCHANGED _initSize
    /\ pool \in {"alive", "closed"}
    /\ waiting > 0
    /\ waiting' = waiting - 1
    /\ timedout' = timedout + 1
    /\ event' = "env"
    /\ UNCHANGED <<_connectionQue, _connectionCnt, _shutdown, _queueMutex, pool,
                   notified, conn, pcP, held, destroyed, created, valid, aged,
                   uaf>>

\* A spurious return of cv.wait_for.
AcqSpurious ==
    /\ UNCHANGED _initSize
    /\ pool \in {"alive", "closed"}
    /\ waiting > 0
    /\ waiting' = waiting - 1
    /\ notified' = notified + 1
    /\ event' = "spurious"
    /\ UNCHANGED <<_connectionQue, _connectionCnt, _shutdown, _queueMutex, pool,
                   timedout, conn, pcP, held, destroyed, created, valid, aged,
                   uaf>>

\* isValid() of the popped session and, when it is not valid, the result of
\* reconnect(): the possible answers to "is the session valid afterwards".
\* connection::reconnect() returns false on failure and throws nothing, so
\* the catch block of getconnection() is never entered and the answer decides
\* nothing else.
ProbeOutcomes(s) == IF s \in valid THEN {TRUE} ELSE BOOLEAN

\* The path getconnection() took through the probe, for a session that was
\* valid when popped (wasValid) or whose reconnect() answered ok.
ProbeEvent(wasValid, ok) ==
    IF wasValid THEN "handle"
    ELSE IF ok THEN "handle_reopened"
    ELSE "handle_broken"

\* The events of a handle being returned by getconnection().
HandleEvents == {"handle", "handle_reopened", "handle_broken"}

\* Mutant: the decrement of the catch block runs whenever the popped session
\* was not valid.
CountAfterProbeUncounts(cnt, wasValid) == IF wasValid THEN cnt ELSE cnt - 1

\* _connectionCnt after the probe: the only decrement of getconnection() is
\* in the catch block, which no path enters.
CountAfterProbe(cnt, wasValid) == cnt

\* if (!conn->isValid()) { reconnect; refreshsAliveTime } ... conn.release(),
\* shared_from_this(), notify_all, return PooledConnection; the lock is
\* released on return.  With the pool already expired shared_from_this()
\* throws std::bad_weak_ptr after conn.release(): the raw pointer is lost.
AcqProbe ==
    /\ UNCHANGED _initSize
    /\ pool \in {"alive", "closed"}
    /\ conn # 0
    /\ \E ok \in ProbeOutcomes(conn) :
         /\ valid' = IF ok THEN valid \cup {conn} ELSE valid
         /\ IF PoolAlive
            THEN /\ held' = held \cup {conn}
                 /\ NotifyAll
                 /\ event' = ProbeEvent(conn \in valid, ok)
            ELSE /\ event' = "bad_weak_ptr"
                 /\ UNCHANGED <<held, pcP, waiting, notified>>
    /\ _connectionCnt' = CountAfterProbe(_connectionCnt, conn \in valid)
    /\ conn' = 0
    /\ _queueMutex' = "free"
    /\ UNCHANGED <<_connectionQue, _shutdown, pool, timedout, destroyed,
                   created, aged, uaf>>

\* ------------------------------------------------- PooledConnection (handle)
\* Mutant: the deleter never gives a session back.
DeleterDropsAll(s) == TRUE

\* if (p == nullptr || !p->isValid()) in the deleter.
DeleterDrops(s) == s \notin valid

\* Mutant: the decrement is forgotten.
UncountForgotten(cnt) == cnt

\* poolPtr->_connectionCnt--
Uncount(cnt) == cnt - 1

\* The deleter lambda of getconnection(), run by ~unique_ptr on a non-null
\* pointer.  Pool alive: under the mutex, an invalid session is deleted and
\* uncounted, a valid one is refreshed and pushed; notify_all either way.
\* Pool expired: delete p.
DestroyHandle(s) ==
    /\ UNCHANGED _initSize
    /\ pool # "crashed"
    /\ s \in held
    /\ held' = held \ {s}
    /\ IF PoolAlive
       THEN /\ _queueMutex = "free"
            /\ IF DeleterDrops(s)
               THEN /\ destroyed' = destroyed \cup {s}
                    /\ _connectionCnt' = Uncount(_connectionCnt)
                    /\ valid' = valid \ {s}
                    /\ event' = "drop"
                    /\ UNCHANGED _connectionQue
               ELSE /\ _connectionQue' = PushBack(_connectionQue, s)
                    /\ event' = "return"
                    /\ UNCHANGED <<destroyed, _connectionCnt, valid>>
            /\ NotifyAll
       ELSE /\ destroyed' = destroyed \cup {s}
            /\ valid' = valid \ {s}
            /\ event' = "delete"
            /\ UNCHANGED <<_connectionQue, _connectionCnt, pcP, waiting,
                           notified>>
    /\ UNCHANGED <<_shutdown, _queueMutex, pool, timedout, conn, created, aged,
                   uaf>>

\* A handle is moved (std::unique_ptr move) and the moved-from handle, which
\* holds nullptr, is destroyed: ~unique_ptr does not call the deleter.
MoveHandle(s) ==
    /\ UNCHANGED _initSize
    /\ pool # "crashed"
    /\ s \in held
    /\ event' = "moved_from_destroyed"
    /\ UNCHANGED <<_connectionQue, _connectionCnt, _shutdown, _queueMutex, pool,
                   waiting, notified, timedout, conn, pcP, held, destroyed,
                   created, valid, aged, uaf>>

\* std::unique_ptr::release(): the handle gives up the raw pointer; neither
\* the deleter nor ~connection runs.
ReleaseHandle(s) ==
    /\ UNCHANGED _initSize
    /\ pool # "crashed"
    /\ s \in held
    /\ held' = held \ {s}
    /\ valid' = valid \ {s}
    /\ event' = "release"
    /\ UNCHANGED <<_connectionQue, _connectionCnt, _shutdown, _queueMutex, pool,
                   waiting, notified, timedout, conn, pcP, destroyed, created,
                   aged, uaf>>

\* ------------------------------------------------------------- scanner
\* Mutant: the trim forgets the floor of _initSize.
TrimIdleIgnoresFloor(s, cnt) == s \in aged

\* The test that trims a session: alive time over the limit and more sessions
\* counted than _initSize.
TrimIdle(s, cnt) == s \in aged /\ cnt > _initSize

\* The while loop of scanRunningConnectionTask over queue q with counter cnt;
\* ok is the set of invalid sessions whose reconnect() succeeds, keep is
\* validConns.  Result: <<validConns, counter>>.
RECURSIVE ScanLoop(_, _, _, _)
ScanLoop(q, cnt, ok, keep) ==
    IF q = <<>>
    THEN <<keep, cnt>>
    ELSE LET s == Head(q) IN
         IF s \notin valid /\ s \notin ok
         THEN ScanLoop(Tail(q), cnt - 1, ok, keep)
         ELSE IF TrimIdle(s, cnt)
         THEN ScanLoop(Tail(q), cnt - 1, ok, keep)
         ELSE ScanLoop(Tail(q), cnt, ok, PushBack(keep, s))

\* if (_connectionCnt < _initSize) cv.notify_all();
ScanNotifies(cnt) == cnt < _initSize

\* One pass of scanRunningConnectionTask after its sleep, under the mutex.
ScanPass ==
    /\ UNCHANGED _initSize
    /\ Started
    /\ pool \in {"alive", "closed"}
    /\ _queueMutex = "free"
    /\ \E ok \in SUBSET (Idle \ valid) :
         LET r == ScanLoop(_connectionQue, _connectionCnt, ok, <<>>)
             dropped == Idle \ Range(r[1])
         IN  /\ _connectionQue' = r[1]
             /\ _connectionCnt' = r[2]
             /\ valid' = (valid \cup ok) \ dropped
             /\ aged' = aged \ dropped
             /\ destroyed' = destroyed \cup dropped
             /\ IF ScanNotifies(r[2])
                THEN NotifyAll
                ELSE UNCHANGED <<pcP, waiting, notified>>
    /\ event' = "scan"
    /\ UNCHANGED <<_shutdown, _queueMutex, pool, timedout, conn, held, created,
                   uaf>>

\* ------------------------------------------------------------- lifecycle
\* ~connection_pool() -> shutdown(): the last shared_ptr is gone (weak
\* pointers are expired); under the mutex the flag is stored and the queue is
\* cleared.  The counter is left as it is and nothing is notified or joined.
Shutdown ==
    /\ UNCHANGED _initSize
    /\ pool = "alive"
    /\ _queueMutex = "free"
    /\ _shutdown' = TRUE
    /\ _connectionQue' = <<>>
    /\ destroyed' = destroyed \cup Idle
    /\ valid' = valid \ Idle
    /\ aged' = {}
    /\ pool' = "closed"
    /\ event' = "shutdown"
    /\ UNCHANGED <<_connectionCnt, _queueMutex, waiting, notified, timedout,
                   conn, pcP, held, created, uaf>>

\* The destructor's body has returned: the members (queue, mutex, condition
\* variable) are destroyed while the detached threads are still running.
Destruct ==
    /\ UNCHANGED _initSize
    /\ pool = "closed"
    /\ _queueMutex = "free"
    /\ pool' = "destroyed"
    /\ _connectionQue' = <<>>
    /\ destroyed' = destroyed \cup Idle
    /\ valid' = valid \ Idle
    /\ aged' = {}
    /\ event' = "destruct"
    /\ UNCHANGED <<_connectionCnt, _shutdown, _queueMutex, waiting, notified,
                   timedout, conn, pcP, held, created, uaf>>

\* A detached thread (producer, scanner) or a caller still inside
\* getconnection() runs on after the pool object is gone: undefined
\* behaviour, which either goes unnoticed or ends the process.
UseAfterFree ==
    /\ UNCHANGED _initSize
    /\ pool = "destroyed"
    /\ uaf' = TRUE
    /\ \E crash \in BOOLEAN : pool' = IF crash THEN "crashed" ELSE pool
    /\ event' = "use_after_free"
    /\ UNCHANGED <<_connectionQue, _connectionCnt, _shutdown, _queueMutex,
                   waiting, notified, timedout, conn, pcP, held, destroyed,
                   created, valid, aged>>

\* ----------------------------------------------------------- environment
\* The server or the network drops the connection of a session that is idle
\* or lent out: mysql_ping fails from now on.
BreakSession(s) ==
    /\ UNCHANGED _initSize
    /\ pool # "crashed"
    /\ s \in valid
    /\ s \in Idle \cup held
    /\ valid' = valid \ {s}
    /\ event' = "env"
    /\ UNCHANGED <<_connectionQue, _connectionCnt, _shutdown, _queueMutex, pool,
                   waiting, notified, timedout, conn, pcP, held, destroyed,
                   created, aged, uaf>>

\* Time passes: an idle session reaches getAliveTime() >= _maxIdleTime*1000.
\* Every session is stamped (refreshsAliveTime) when it is pushed, so the
\* sessions in front of it in the queue have reached the limit before it.
AgeSession(s) ==
    /\ UNCHANGED _initSize
    /\ s \in Idle \ aged
    /\ \A i \in 1..Len(_connectionQue) :
         _connectionQue[i] = s =>
             \A j \in 1..(i - 1) : _connectionQue[j] \in aged
    /\ aged' = aged \cup {s}
    /\ event' = "env"
    /\ UNCHANGED <<_connectionQue, _connectionCnt, _shutdown, _queueMutex, pool,
                   waiting, notified, timedout, conn, pcP, held, destroyed,
                   created, valid, uaf>>

\* ---------------------------------------------------------- specification
Next ==
    \/ ProducerEnter
    \/ ProducerConnect
    \/ ProducerSpurious
    \/ AcqCall
    \/ AcqWakeNotified
    \/ AcqWakeTimedOut
    \/ AcqTimeout
    \/ AcqSpurious
    \/ AcqProbe
    \/ \E s \in Sessions : DestroyHandle(s)
    \/ \E s \in Sessions : MoveHandle(s)
    \/ \E s \in Sessions : ReleaseHandle(s)
    \/ ScanPass
    \/ Shutdown
    \/ Destruct
    \/ UseAfterFree
    \/ \E s \in Sessions : BreakSession(s)
    \/ \E s \in Sessions : AgeSession(s)

Spec == Init /\ [][Next]_vars

\* Scheduling: every thread that can take a step eventually takes one, the
\* timer of a wait_for that stays blocked eventually expires, and the scanner
\* wakes from its sleep again and again.  Nothing obliges the application to
\* call getconnection(), to destroy a handle or to destroy the pool, nor the
\* server to drop a connection, nor a wait to return spuriously.
Fairness ==
    /\ WF_vars(ProducerEnter)
    /\ WF_vars(ProducerConnect)
    /\ WF_vars(AcqWakeNotified)
    /\ WF_vars(AcqWakeTimedOut)
    /\ WF_vars(AcqTimeout)
    /\ WF_vars(AcqProbe)
    /\ WF_vars(ScanPass)

FairSpec == Spec /\ Fairness

\* Time passes for the idle sessions: clock() of the process keeps advancing
\* (the scanner's own passes consume processor time), so the oldest idle
\* session that has not reached the limit of getAliveTime() eventually does.
TimePasses == WF_vars(\E s \in Sessions : AgeSession(s))

\* The scheduling an idle pool depends on: the scanner wakes from its sleep
\* again and again, and time passes.
IdleSpec == Spec /\ WF_vars(ScanPass) /\ TimePasses

\* ================================================================ claims
\* A step that destroys the live handle of session s (the deleter runs).
HandleDestroyed(s) ==
    /\ s \in held
    /\ s \notin held'
    /\ event' \in {"return", "drop", "delete"}

\* Every thread blocked on the condition variable has been woken.
AllSignalled == waiting = 0 /\ pcP # "waiting"

\* C1: while the pool is alive and no handle has given up its session through
\* release(), _connectionCnt equals the number of idle sessions plus the
\* number of sessions held by live handles at every point where the mutex is
\* free; inside the critical section of getconnection(), between the pop and
\* the return of the handle, the popped session is the one session counted
\* in neither.
C1_CountIsIdlePlusHeld ==
    (pool = "alive" /\ Leaked = {}) =>
        /\ _connectionCnt =
              Len(_connectionQue) + Cardinality(held) + Cardinality(InFlight)
        /\ (_queueMutex = "free" =>
              _connectionCnt = Len(_connectionQue) + Cardinality(held))

C1_Witness ==
    /\ pool = "alive"
    /\ Leaked = {}
    /\ _queueMutex = "free"
    /\ held # {}
    /\ Idle # {}
    /\ destroyed # {}
    /\ created > _initSize
    /\ event = "scan"

C3_OneHolder ==
    /\ Idle \cap held = {}
    /\ Idle \cap InFlight = {}
    /\ InFlight \cap held = {}
    /\ Cardinality(Idle) = Len(_connectionQue)
    /\ destroyed \cap (Idle \cup held \cup InFlight) = {}

\* One session deleted, one lent out, and one back in the queue after its
\* handle was destroyed.
C3_Witness ==
    /\ Idle # {}
    /\ held # {}
    /\ destroyed # {}
    /\ event = "return"

\* C4: every session that getconnection() hands out in a handle is valid at
\* the moment of return.
C4_HandedOutHealthy ==
    [][\A s \in Sessions : (s \in held' /\ s \notin held) => s \in valid']_vars

\* The pool is saturated: alive, nothing idle, _maxSize sessions counted and
\* all of them lent out.
Saturated ==
    /\ pool = "alive"
    /\ _connectionQue = <<>>
    /\ _connectionCnt = MaxSize
    /\ Cardinality(held) = MaxSize

\* C5: on a saturated pool a caller blocked in getconnection() eventually
\* gets the timeout failure, unless the pool stops being saturated (a handle
\* is given back).  Spurious returns of wait_for are left aside: the
\* statement is about the notifications the pool itself sends.
C5_TimeoutEventually ==
    (Saturated /\ waiting > 0)
        ~> (event = "timeout" \/ ~Saturated \/ event = "spurious")

\* C6: the step in which getconnection() fails with the timeout changes
\* neither the idle queue, nor the counter, nor the shutdown flag.
C6_TimeoutLeavesPool ==
    [][event' = "timeout" =>
          /\ _connectionQue' = _connectionQue
          /\ _connectionCnt' = _connectionCnt
          /\ _shutdown' = _shutdown]_vars

C6_Witness == event = "timeout" /\ Cardinality(held) = MaxSize

\* C7: once shutdown() has set the flag, no call of getconnection() removes
\* a session from the idle queue or returns a handle.
C7_ClosedPoolRefuses ==
    [][(_shutdown /\ pool = "closed") =>
          /\ ~(conn = 0 /\ conn' # 0)
          /\ held' \subseteq held]_vars

\* C8: destroying the live handle of a valid session while the pool is alive
\* appends the session to the back of the idle queue, once, leaves the
\* counter unchanged and wakes every thread waiting on the condition
\* variable; destroying a moved-from handle changes nothing in the pool.
C8_HealthyReturn ==
    [][/\ \A s \in Sessions :
            (HandleDestroyed(s) /\ pool = "alive" /\ s \in valid) =>
                /\ event' = "return"
                /\ _connectionQue' = Append(_connectionQue, s)
                /\ s \notin Idle
                /\ s \notin destroyed'
                /\ _connectionCnt' = _connectionCnt
                /\ AllSignalled'
       /\ event' = "moved_from_destroyed" =>
            UNCHANGED <<_connectionQue, _connectionCnt, held, destroyed,
                        waiting, notified, pcP>>]_vars

C8_Witness == event = "return" /\ notified > 0 /\ held # {}

\* C9: destroying the live handle of an invalid session while the pool is
\* alive deletes the session, keeps it out of the idle queue, decrements the
\* counter by one and wakes every thread waiting on the condition variable.
C9_UnhealthyDrop ==
    [][\A s \in Sessions :
          (HandleDestroyed(s) /\ pool = "alive" /\ s \notin valid) =>
              /\ event' = "drop"
              /\ s \in destroyed'
              /\ _connectionQue' = _connectionQue
              /\ s \notin Idle
              /\ _connectionCnt' = _connectionCnt - 1
              /\ AllSignalled']_vars

C9_Witness == event = "drop" /\ notified > 0

\* C10: destroying a live handle after the pool has expired deletes the
\* session and leaves the queue, the counter, the flag, the mutex and the
\* threads waiting on the condition variable as they are.
C10_ExpiredPoolUntouched ==
    [][\A s \in Sessions :
          (HandleDestroyed(s) /\ pool # "alive") =>
              /\ event' = "delete"
              /\ s \in destroyed'
              /\ UNCHANGED <<_connectionQue, _connectionCnt, _shutdown,
                             _queueMutex, waiting, notified, timedout, pcP>>]_vars

C10_Witness == event = "delete" /\ pool = "destroyed" /\ waiting > 0

\* A thread enters getconnection() in this step.
CallEntered == InCall' = InCall + 1

\* C11: on a live pool, the destruction of a handle on a valid session leaves
\* the idle queue non-empty; a non-empty queue becomes empty only by a pop of
\* getconnection(), a scanner pass or shutdown(); a call of getconnection()
\* that finds the queue non-empty pops its front at once, without waiting on
\* the condition variable; and the popped session is returned in a handle.
C11_ReturnedSessionServesNextCall ==
    [][/\ (event' = "return") => (_connectionQue' # <<>>)
       /\ (_connectionQue # <<>> /\ _connectionQue' = <<>>) =>
              event' \in {"pop", "scan", "shutdown", "destruct"}
       /\ (CallEntered /\ _connectionQue # <<>>) =>
              /\ event' = "pop"
              /\ conn' = Head(_connectionQue)
              /\ waiting' = waiting
       /\ (conn # 0 /\ conn' = 0 /\ pool = "alive") =>
              /\ event' \in HandleEvents
              /\ conn \in held']_vars

\* A call has just popped the session the producer made, and behind it in
\* the queue is a session of the constructor: that session was lent out and
\* came back through the deleter after the producer's push.
C11_Witness ==
    /\ event = "pop"
    /\ pool = "alive"
    /\ conn > _initSize
    /\ waiting + notified + timedout = 0
    /\ Idle # {}
    /\ \A s \in Idle : s <= _initSize

\* The pool is exhausted but not saturated: started and alive, nothing idle,
\* fewer than _maxSize sessions counted, every counted session lent out in a
\* handle (and the model still has a session to create).
Exhausted ==
    /\ Started
    /\ pool = "alive"
    /\ Leaked = {}
    /\ _connectionQue = <<>>
    /\ _connectionCnt < MaxSize
    /\ created < MaxSessions

\* C12: whenever the pool is exhausted but not saturated, the producer
\* eventually enqueues a new session (or the pool stops being exhausted by
\* other means), whichever operation emptied the queue.
C12_ProducerEventuallyEnqueues ==
    Exhausted ~> (event = "produce" \/ ~Exhausted)

\* The application is quiet: the pool is alive, every handle has been given
\* back, no thread is inside getconnection(), and every idle session is valid.
Quiet ==
    /\ pool = "alive"
    /\ held = {}
    /\ InCall = 0
    /\ Leaked = {}
    /\ Idle \subseteq valid

\* C13: when the application is quiet after a burst that left more than
\* _initSize sessions counted, and stays quiet, the scanner eventually brings
\* the counter to exactly _initSize; and while the application stays quiet a
\* counter at _initSize stays there.
C13_TrimsToInitSize ==
    /\ (Quiet /\ _connectionCnt > _initSize)
          ~> (_connectionCnt = _initSize \/ ~Quiet)
    /\ [][(Quiet /\ Quiet' /\ _connectionCnt = _initSize) =>
             _connectionCnt' = _initSize]_vars

\* A scanner pass has just trimmed a quiet pool that had grown down to
\* _initSize valid idle sessions.
C13_Witness ==
    /\ Quiet
    /\ event = "scan"
    /\ created > _initSize
    /\ destroyed # {}
    /\ _connectionCnt = _initSize
    /\ Len(_connectionQue) = _initSize
    /\ pcP = "waiting"

\* C14: a pool that construction has started holds exactly _initSize
\* sessions in the idle queue, all of them open, and counts _initSize.
C14_StartedPoolIsOpen ==
    (event = "init" /\ Started) =>
        /\ Len(_connectionQue) = _initSize
        /\ _connectionCnt = _initSize
        /\ created = _initSize
        /\ Idle \subseteq valid

\* C15: a failure to load the configuration leaves no pool object: no state
\* exists in which the threads were never started and the pool can be used.
C15_ConfigFailureIsFatal == Started \/ pool # "alive"

\* A step of the producer or of the scanner thread, the steps they take on a
\* pool object that is already destroyed included.
ThreadStep ==
    \/ ProducerEnter
    \/ ProducerConnect
    \/ ProducerSpurious
    \/ ScanPass
    \/ (Started /\ UseAfterFree)

\* C16: after shutdown() has set the flag, the producer and the scanner
\* eventually terminate: a state is reached in which neither of them can
\* take another step.
C16_ThreadsExitAfterShutdown ==
    (_shutdown /\ pool = "closed") ~> ~ENABLED ThreadStep

\* C17: release() on a handle destroys its session and does not put it into
\* the idle queue: after the step the session is neither idle nor alive.
C17_ReleaseDestroysSession ==
    [][\A s \in Sessions :
          (s \in held /\ s \notin held' /\ event' = "release") =>
              /\ s \in destroyed'
              /\ s \notin Range(_connectionQue')]_vars

\* C18: when getconnection() has popped an invalid session and the reconnect
\* fails, the call deletes the session, decrements the counter by one,
\* notifies, and returns no handle on it.
C18_FailedReopenDropsSession ==
    [][(conn # 0 /\ conn' = 0 /\ pool = "alive" /\ conn \notin valid') =>
          /\ conn \in destroyed'
          /\ conn \notin held'
          /\ _connectionCnt' = _connectionCnt - 1
          /\ AllSignalled']_vars

\* C19: when getconnection() has popped an invalid session and the reconnect
\* succeeds, the call returns a handle on that same session, now valid, and
\* neither the pop nor the probe changes the counter or puts anything into
\* the queue.
C19_ReopenedSessionReturned ==
    [][/\ (conn # 0 /\ conn' = 0 /\ pool = "alive"
              /\ conn \notin valid /\ conn \in valid') =>
             /\ event' = "handle_reopened"
             /\ held' = held \cup {conn}
             /\ conn \notin held
             /\ _connectionCnt' = _connectionCnt
             /\ _connectionQue' = _connectionQue
       /\ (conn = 0 /\ conn' # 0) =>
             /\ _connectionCnt' = _connectionCnt
             /\ conn' \notin held]_vars

\* A handle on a reopened session has just been returned.
C19_Witness ==
    /\ event = "handle_reopened"
    /\ pool = "alive"
    /\ held # {}
    /\ held \subseteq valid
    /\ _connectionCnt = Cardinality(held) + Len(_connectionQue)

\* C20: the producer pushes a session only onto an idle queue that is empty:
\* the queue was empty when the producer tested it and nothing was pushed
\* between the test and the producer's own push, whatever woke the producer.
C20_ProducerOnDemand ==
    [][/\ (event' = "produce") =>
             /\ _connectionQue = <<>>
             /\ Len(_connectionQue') = 1
             /\ _queueMutex = "producer"
       /\ (event' = "producer_open") =>
             /\ _connectionQue = <<>>
             /\ _queueMutex' = "producer"
       /\ (_queueMutex = "producer" /\ _queueMutex' = "producer") =>
             _connectionQue' = _connectionQue]_vars

\* The producer has just pushed a session for callers that found every
\* session lent out.
C20_Witness ==
    /\ event = "produce"
    /\ pool = "alive"
    /\ Len(_connectionQue) = 1
    /\ held # {}
    /\ notified > 0

\* C21: when the producer's connect() fails, the producer pushes nothing
\* into the idle queue and does not increment the counter.
C21_FailedOpenNotEnqueued ==
    [][(pcP = "connecting" /\ pcP' # "connecting" /\ created' \notin valid') =>
          /\ _connectionQue' = _connectionQue
          /\ _connectionCnt' = _connectionCnt]_vars

\* C22: every session is valid at the moment it is put into the idle queue:
\* the sessions the constructor enqueues, and every session a later step
\* pushes or, in a scanner pass, pushes back.
C22_InsertedSessionsHealthy ==
    /\ (event = "init" => Idle \subseteq valid)
    /\ [][\A s \in Range(_connectionQue') :
             (s \notin Idle \/ event' = "scan") => s \in valid']_vars

\* C23: the mutex is free while getconnection() probes or reopens the session
\* it popped and while the producer opens a new session.
C23_NoLockAcrossSessionIO ==
    (conn # 0 \/ pcP = "connecting") => _queueMutex = "free"

\* The scanner pass of this step is the one in which exactly the sessions of
\* ok were reconnected successfully.
ScanExplains(ok) ==
    LET r == ScanLoop(_connectionQue, _connectionCnt, ok, <<>>) IN
    /\ event' = "scan"
    /\ _connectionQue' = r[1]
    /\ _connectionCnt' = r[2]
    /\ valid' = (valid \cup ok) \ (Idle \ Range(r[1]))

\* _connectionCnt at the moment the scanner examines the i-th session of the
\* queue: the counter at the start of the pass less the sessions dropped
\* before it.
CountAtTurn(i) ==
    _connectionCnt
        - Cardinality({j \in 1..(i - 1) :
                          _connectionQue[j] \notin Range(_connectionQue')})

\* C24: a scanner pass removes an idle session only if (a) it was invalid
\* and its reconnect failed, or (b) it was valid, its alive time had reached
\* the limit and the counter was above _initSize at that moment; a session
\* that was invalid and reconnected successfully is kept.  (Stated for the
\* passes on a live pool.)
C24_ScanRemovesOnlyDeadOrIdle ==
    [][\A ok \in SUBSET (Idle \ valid) :
          (pool = "alive" /\ ScanExplains(ok)) =>
              /\ \A i \in 1..Len(_connectionQue) :
                    LET s == _connectionQue[i] IN
                    s \notin Range(_connectionQue') =>
                        \/ s \notin valid /\ s \notin ok
                        \/ /\ s \in valid
                           /\ s \in aged
                           /\ CountAtTurn(i) > _initSize
              /\ ok \subseteq Range(_connectionQue')]_vars

\* The position of session s in queue q.
Pos(q, s) == CHOOSE k \in 1..Len(q) : q[k] = s

\* Queue a holds sessions of queue b only, in the order they have in b.
KeepsOrder(a, b) ==
    /\ Range(a) \subseteq Range(b)
    /\ \A i, j \in 1..Len(a) : i < j => Pos(b, a[i]) < Pos(b, a[j])

\* C25: the idle queue is first in, first out.  getconnection() takes the
\* front of the queue and leaves the rest as it is; a session returned by a
\* handle or made by the producer goes to the back, behind everything already
\* idle; a scanner pass keeps the sessions it retains in their order; and no
\* other step reorders the queue.
C25_IdleIsFifo ==
    [][/\ (conn = 0 /\ conn' # 0) =>
             /\ conn' = Head(_connectionQue)
             /\ _connectionQue' = Tail(_connectionQue)
       /\ (event' \in {"return", "produce"}) =>
             /\ Len(_connectionQue') = Len(_connectionQue) + 1
             /\ SubSeq(_connectionQue', 1, Len(_connectionQue)) = _connectionQue
             /\ _connectionQue'[Len(_connectionQue')] \notin Idle
       /\ KeepsOrder(_connectionQue', _connectionQue)
             \/ event' \in {"return", "produce"}]_vars

\* A scanner pass has just kept two idle sessions in an order that only
\* returns to the back explain: the producer's session in front of the
\* constructor's, which was lent out and came back behind it.
C25_Witness ==
    /\ event = "scan"
    /\ pool = "alive"
    /\ Len(_connectionQue) >= 2
    /\ _connectionQue[1] > _connectionQue[2]

\* A pass of the scanner has just left fewer sessions counted than _initSize.
ScanLeftShort ==
    /\ Started
    /\ pool = "alive"
    /\ event = "scan"
    /\ _connectionCnt < _initSize

\* C26: when a pass of the scanner leaves fewer sessions counted than
\* _initSize, the producer brings the counter back to at least _initSize
\* with no call of getconnection() being needed, also when the idle queue is
\* not empty after the pass (as long as the pool is in service, nobody calls
\* getconnection() and a connection object can still be constructed).
C26_ProducerTopsUpAfterScan ==
    ScanLeftShort ~> \/ _connectionCnt >= _initSize
                     \/ pool # "alive"
                     \/ InCall > 0
                     \/ created = MaxSessions

\* A step of the producer that starts an iteration of its loop.
ProducerDecides == event' \in {"producer_wait", "producer_open", "producer_spin"}

\* C27: the producer is suspended on the condition variable whenever it has
\* nothing to do: while the pool is in service, an iteration that finds the
\* idle queue empty and _maxSize sessions counted ends with the producer blocked in cv.wait, without a
\* notification sent.
C27_SaturatedProducerSleeps ==
    [][(/\ pool = "alive"
        /\ pcP = "lock"
        /\ ProducerDecides
        /\ _connectionQue = <<>>
        /\ _connectionCnt = MaxSize) =>
            /\ pcP' = "waiting"
            /\ notified' = notified]_vars

\* C28: the destruction of the pool waits for the producer and the scanner:
\* once the pool object is destroyed neither thread takes another step on
\* the queue, the counter, the mutex or the condition variable.
C28_NoThreadOutlivesPool ==
    [][pool = "destroyed" => ~ThreadStep]_vars

\* C29: after shutdown() has cleared the idle queue, the queue stays empty and
\* no connection object is constructed; a handle destroyed from then on has
\* its session deleted, not enqueued.
C29_NothingAfterShutdown ==
    [][pool = "closed" =>
          /\ _connectionQue' = <<>>
          /\ created' = created
          /\ \A s \in Sessions :
                HandleDestroyed(s) => s \in destroyed' /\ s \notin Idle']_vars

\* C30: no wake-up of a caller is lost: every step that puts a session into
\* the idle queue (the producer's push, a handle's return) wakes every caller
\* blocked in wait_for, so no caller stays blocked on a non-empty queue.
C30_NoLostWakeup ==
    /\ [](_connectionQue # <<>> => waiting = 0)
    /\ [][Len(_connectionQue') > Len(_connectionQue) =>
             /\ event' \in {"produce", "return"}
             /\ waiting' = 0
             /\ notified' = notified + waiting]_vars

\* A push has just woken a caller that was blocked in wait_for.
C30_Witness ==
    /\ event \in {"produce", "return"}
    /\ pool = "alive"
    /\ _connectionQue # <<>>
    /\ notified > 0

====
